---- MODULE Spec2Model ----
(***************************************************************************)
(* WebSocketClient of python-agents/websocket_client.py as a state machine. *)
(*                                                                         *)
(* The client runs under asyncio: one thread, cooperative tasks.  A task   *)
(* runs without interruption from one await that suspends to the next, so  *)
(* every action below is the code between two suspension points of one     *)
(* task: awaiting websockets.connect, connection.send, connection.close,   *)
(* the next inbound item, or asyncio.sleep.                                *)
(*                                                                         *)
(* Three tasks share one client: the caller's workflow, receive_messages   *)
(* and maintain_connection.  The transports are the environment: each      *)
(* websockets.connect that succeeds yields a fresh transport, which the    *)
(* peer may close or which may break at any time.                          *)
(***************************************************************************)
EXTENDS Naturals, Sequences, FiniteSets, TLC

\* ---------------------------------------------------------------- bounds
\* Transports the endpoint accepts before it refuses every further open.
MaxTransports == 2
\* Messages one transport carries before it breaks.
MaxLog == 2
\* Operations the caller's workflow issues.
MaxCalls == 2
\* The count of consecutive failed reconnects saturates here.
MaxFails == 2
\* Handlers the workflow has at hand to register.
MaxHandlers == 2
\* register_message_handler calls the workflow makes.
MaxRegs == 2
\* Inbound items receive_messages takes from the stream.
MaxItems == 2
\* Distinct bodies an inbound message can carry.
MaxData == 2
\* Message dicts the workflow holds for send_message.
MaxMsgs == 1
\* Operations the workflow issues when it only sends.
MaxSends == 3
\* Observations an agent run reports at most.
MaxObs == 2
\* Personas an exploration is asked for at most: one more than are interviewed.
MaxPersonas == 6
\* Distinct persona types among the loaded personas at most.
MaxTypes == 2
\* /run-agents requests the dashboard server receives.
MaxRuns == 2
\* /stop requests the dashboard server receives.
MaxStops == 1

\* ------------------------------------------------------------- vocabulary
\* self.connection = None
None == 0

Caller == "caller"
Receiver == "receiver"
Maintainer == "maintainer"
Tasks == {Caller, Receiver, Maintainer}
\* The tasks that run connect(): the caller's workflow and maintain_connection.
Connectors == {Caller, Maintainer}

\* The envelope types of the outbound messages.
HandshakeType == "agent_connect"
\* A disconnect message that carries the handshake's type.
DisconnectTypeWrong == "agent_connect"
DisconnectType == "agent_disconnect"
ObservationType == "agent_observation"
ResultType == "exploration_result"
HeartbeatType == "heartbeat"
\* A caller-defined type handed to send_message directly.
CustomType == "custom"

\* The senders the caller uses, each with the type of the envelope it builds.
SenderType(sender) ==
    CASE sender = "send_observation" -> ObservationType
      [] sender = "send_exploration_result" -> ResultType
      [] sender = "send_heartbeat" -> HeartbeatType
      [] OTHER -> CustomType
Senders == {"send_message", "send_observation", "send_exploration_result", "send_heartbeat"}

VARIABLES
    is_connected,   \* self.is_connected
    connection,     \* self.connection: None or the id of a transport
    tstate,         \* per transport: "open", "peer_closed", "broken", "closed"
    written,        \* per transport: the types of the messages written to it, in order
    pc,             \* per task: the await it is suspended in, or where it ended
    call,           \* per task: the method call it runs or ran last, with what the call did
    calls,          \* operations the caller has issued
    fails,          \* maintain_connection: consecutive failed connect() attempts
    message_handlers,   \* self.message_handlers: per message type a handler, or none
    registered,     \* the register_message_handler calls made, in order
    rx,             \* receive_messages: the inbound item it took last and what it invoked
    msgs,           \* the message dicts the workflow holds and passes to send_message
    issued,         \* uuid.uuid4() values drawn so far
    out,            \* the message of the send in progress or last made, as handed in and as sent
    wire,           \* the payloads written to the transport, in order
    orch,           \* the exploration orchestrator: the method it runs and what came of it
    inbox,          \* the texts that have arrived on the stream of the receive loop, in order
    handled,        \* how the handlers that receive_messages awaited have ended, in order
    dash            \* the dashboard server: its two globals, its requests and the subprocesses

\* The registry and the receive loop's dispatch; the messages sent; the
\* orchestrator; the inbound stream; the dashboard server.
dvars == <<message_handlers, registered, rx>>
evars == <<msgs, issued, out, wire>>
ovars == <<orch>>
svars == <<inbox, handled>>
wvars == <<dash>>

\* What the connection methods leave alone.
aux == <<dvars, evars, ovars, svars, wvars>>

vars == <<is_connected, connection, tstate, written, pc, call, calls, fails, aux>>

Transports == 1..Len(tstate)

\* Occurrences of a type in a transport's log.
RECURSIVE Count(_, _)
Count(type, log) ==
    IF log = <<>> THEN 0
    ELSE (IF Head(log) = type THEN 1 ELSE 0) + Count(type, Tail(log))

\* ------------------------------------------------------------ call records
\* What a task's current method call has done so far, and what its last call
\* returned:
\*   op     the method; done: it has returned; res: its return value
\*   pre    the client was connected when the method was called
\*   tr     connect: the transport this call opened;
\*          otherwise self.connection when the method was called
\*   wa, wo transport writes attempted / completed by the call
\*   ca     transport closes attempted by the call
\* A call that has returned keeps its method and its return value only.
NoCall ==
    [op |-> "none", done |-> TRUE, res |-> FALSE, pre |-> FALSE, tr |-> None,
     wa |-> 0, wo |-> 0, ca |-> 0]

\* The client counts as connected when the flag is set and the handle is held.
Connected == is_connected /\ connection # None

NewCall(op) ==
    [NoCall EXCEPT !.op = op, !.done = FALSE, !.pre = Connected, !.tr = connection]

Returned(rec, res) == [NoCall EXCEPT !.op = rec.op, !.res = res]

\* The message types a handler can be registered for, and the marker of a
\* message that carries no "type" key (data.get("type") is None).
MsgTypes == {"command", "status"}
Absent == "absent"

\* The handlers the workflow can register; NoHandler marks a type without one.
Handlers == 1..MaxHandlers
NoHandler == 0

\* Line 38: the empty registry.
NoHandlers == [T \in MsgTypes |-> NoHandler]

\* receive_messages before its first inbound item.
NoItem == [n |-> 0, item |-> [kind |-> "none", type |-> Absent, data |-> 0],
           prev |-> "none", invoked |-> <<>>]

\* Lines 36-38 and the receive loop not started: nothing registered, nothing
\* received.
DispatchIdle ==
    /\ message_handlers = NoHandlers
    /\ registered = <<>>
    /\ rx = NoItem

\* The "id" key of a message dict: missing, put in by the caller, or the n-th
\* value drawn from uuid.uuid4().
NoId == [kind |-> "absent", n |-> 0]
GivenId == [kind |-> "given", n |-> 0]

\* A message dict: its keys, Absent or NoId for a key it does not have.
NoMessage ==
    [type |-> Absent, agent_id |-> Absent, agent_type |-> Absent,
     id |-> NoId, timestamp |-> Absent, body |-> 0]

\* No send made yet.
NoOut ==
    [sender |-> "none", arg |-> 0, handed |-> NoMessage, sent |-> NoMessage,
     lacked |-> FALSE]

\* No message built, none written.
EnvelopeIdle ==
    /\ msgs = <<>>
    /\ issued = 0
    /\ out = NoOut
    /\ wire = <<>>

\* What a method of the orchestrator came to: nothing yet, a returned dict
\* (its keys, with the values the claims look at), or an exception that left it.
NoResult ==
    [kind |-> "none", keys |-> {}, complete |-> FALSE, count_key |-> Absent,
     count |-> 0, observations |-> 0, error |-> Absent,
     mentions_error |-> FALSE]

\* The orchestrator with no method running.
NoOrch ==
    [op |-> "none", pc |-> "idle", ptype |-> Absent, prompt |-> Absent,
     timed |-> FALSE, output |-> [kind |-> "none", obs |-> 0],
     fault |-> "none", n |-> 0, loads |-> <<>>, types |-> 0,
     phases |-> <<>>, interviewed |-> 0, result |-> NoResult]

\* dashboard_server.py, lines 22-23, with no request received: no process,
\* not running.  A request is a thread of the server; own, watched and target
\* are the subprocess a /run-agents thread started, the one whose output it
\* reads and the one it waits for.
NoProcess == 0
NoDash ==
    [is_running |-> FALSE, current_process |-> NoProcess, alive |-> {},
     spawned |-> 0,
     run |-> [r \in 1..MaxRuns |->
                [pc |-> "new", own |-> NoProcess, watched |-> NoProcess,
                 target |-> NoProcess]],
     stop |-> [k \in 1..MaxStops |-> "new"]]

\* __init__, lines 36-38, with no task started and no transport opened.
Init ==
    /\ is_connected = FALSE
    /\ connection = None
    /\ tstate = <<>>
    /\ written = <<>>
    /\ pc = [t \in Tasks |-> "idle"]
    /\ call = [t \in Tasks |-> NoCall]
    /\ calls = 0
    /\ fails = 0
    /\ DispatchIdle
    /\ EnvelopeIdle
    /\ orch = NoOrch
    /\ inbox = <<>>
    /\ handled = <<>>
    /\ dash = NoDash


\* ------------------------------------------------------------- transports
\* A write succeeds only on an open transport with room left; it may fail on
\* any transport, and a failed write leaves an open transport broken.
WriteOutcomes(ts, w, h) ==
    IF ts[h] = "open" /\ Len(w[h]) < MaxLog THEN {TRUE, FALSE} ELSE {FALSE}

\* A transport that puts the message written last in front of the others.
LogAfterWritePrepends(w, h, type, ok) ==
    IF ok THEN [w EXCEPT ![h] = <<type>> \o @] ELSE w

\* connection.send (line 108): a write that succeeds puts the message after
\* those the transport already carries.
LogAfterWrite(w, h, type, ok) ==
    IF ok THEN [w EXCEPT ![h] = Append(@, type)] ELSE w

\* A failed write that leaves the transport usable.
StateAfterWriteStaysOpen(ts, h, ok) == ts

StateAfterWrite(ts, h, ok) ==
    IF ~ok /\ ts[h] = "open" THEN [ts EXCEPT ![h] = "broken"] ELSE ts

\* A close that closes every open transport, not the one it is called on.
StateAfterCloseAll(ts, h, ok) ==
    [x \in DOMAIN ts |-> IF ok /\ ts[x] = "open" THEN "closed" ELSE ts[x]]

\* connection.close(): a close that succeeds closes an open transport.
StateAfterClose(ts, h, ok) ==
    IF ok /\ ts[h] = "open" THEN [ts EXCEPT ![h] = "closed"] ELSE ts

\* async for message in self.connection (line 181): a transport that the peer
\* or the client closed ends the iteration; a broken one makes it raise.
StreamEnd(status) ==
    CASE status = "broken" -> "raised"
      [] status \in {"peer_closed", "closed"} -> "finished"
      [] OTHER -> "none"

\* A transport is held while it is self.connection or the transport of a call
\* that has not returned.  Nothing is written to or read from a transport that
\* is not held, ever again: its log is dropped, and if it is not open, so is
\* the way it ended.
Held(h, cn, cl) == h = cn \/ \E t \in Tasks : ~cl[t].done /\ cl[t].tr = h

KeptStates(ts, cn, cl) ==
    [h \in DOMAIN ts |-> IF Held(h, cn, cl) \/ ts[h] = "open" THEN ts[h] ELSE "closed"]

KeptLogs(w, cn, cl) ==
    [h \in DOMAIN w |-> IF Held(h, cn, cl) THEN w[h] ELSE <<>>]

\* The transports after a step that leaves them as ts with the logs w.
Settle(ts, w) ==
    /\ tstate' = KeptStates(ts, connection', call')
    /\ written' = KeptLogs(w, connection', call')

\* The peer closes a transport normally.
PeerClose(h) ==
    /\ UNCHANGED aux
    /\ tstate[h] = "open"
    /\ UNCHANGED <<is_connected, connection, pc, call, calls, fails>>
    /\ Settle([tstate EXCEPT ![h] = "peer_closed"], written)

\* A transport breaks.
TransportError(h) ==
    /\ UNCHANGED aux
    /\ tstate[h] = "open"
    /\ UNCHANGED <<is_connected, connection, pc, call, calls, fails>>
    /\ Settle([tstate EXCEPT ![h] = "broken"], written)

\* ------------------------------------------------------------ send_message
\* A guard that looks at the handle alone.
NotConnectedHandleOnly(ic, cn) == cn = None

\* Line 95: the guard of send_message, on the flag and the handle it reads.
NotConnected(ic, cn) == ~ic \/ cn = None

\* A send_message that reports success whatever the write did.
SentAlwaysTrue(rec, ok) ==
    [rec EXCEPT !.wa = @ + 1, !.wo = @ + (IF ok THEN 1 ELSE 0), !.res = TRUE]

\* The call record after a transport write that ended ok or raised:
\* send_message returns True (line 110) or False (line 113).
Sent(rec, ok) ==
    [rec EXCEPT !.wa = @ + 1, !.wo = @ + (IF ok THEN 1 ELSE 0), !.res = ok]

\* Where a task goes on when the method it called returns: the caller's workflow
\* is free for its next operation, maintain_connection sleeps (line 221).
Resume(t) == IF t = Maintainer THEN "sleeping" ELSE "idle"

Min(a, b) == IF a < b THEN a ELSE b

\* Lines 88-108, run by task t for its call rec with the flag ic and the handle
\* cn: the guard, and the write of an envelope of the given type up to the
\* await of connection.send.  A refused send returns False at once (line 97)
\* and the task goes on at `back`.
SendMessage(t, rec, type, ic, cn, ts, w, back) ==
    IF NotConnected(ic, cn)
    THEN /\ pc' = [pc EXCEPT ![t] = back]
         /\ call' = [call EXCEPT ![t] = Returned(rec, FALSE)]
         /\ Settle(ts, w)
    ELSE \E ok \in WriteOutcomes(ts, w, cn) :
         /\ pc' = [pc EXCEPT ![t] = "sending"]
         /\ call' = [call EXCEPT ![t] = Sent(rec, ok)]
         /\ Settle(StateAfterWrite(ts, cn, ok), LogAfterWrite(w, cn, type, ok))

\* ----------------------------------------------------------------- connect
\* The caller calls connect(): lines 40-51, up to the await of websockets.connect.
CallConnect ==
    /\ UNCHANGED aux
    /\ pc[Caller] = "idle"
    /\ calls < MaxCalls
    /\ calls' = calls + 1
    /\ pc' = [pc EXCEPT ![Caller] = "opening"]
    /\ call' = [call EXCEPT ![Caller] = [NewCall("connect") EXCEPT !.tr = None]]
    /\ UNCHANGED <<is_connected, connection, fails>>
    /\ Settle(tstate, written)

\* websockets.connect returned a transport: lines 51-61, up to the await of
\* connection.send inside the handshake's send_message.  connect() ignores
\* what send_message returns, so a refused handshake returns True as well.
ConnectOpened(t) ==
    /\ UNCHANGED aux
    /\ pc[t] = "opening"
    /\ Len(tstate) < MaxTransports
    /\ fails' = IF t = Maintainer THEN 0 ELSE fails
    /\ UNCHANGED calls
    /\ LET h == Len(tstate) + 1
           ts == Append(tstate, "open")
           w == Append(written, <<>>)
           rec == [call[t] EXCEPT !.tr = h]
       IN  /\ connection' = h
           /\ is_connected' = TRUE
           /\ IF NotConnected(TRUE, h)
              THEN /\ pc' = [pc EXCEPT ![t] = Resume(t)]
                   /\ call' = [call EXCEPT ![t] = Returned(rec, TRUE)]
                   /\ Settle(ts, w)
              ELSE SendMessage(t, rec, HandshakeType, TRUE, h, ts, w, Resume(t))

\* websockets.connect threw: lines 64-67.
ConnectFailed(t) ==
    /\ UNCHANGED aux
    /\ pc[t] = "opening"
    /\ is_connected' = FALSE
    /\ pc' = [pc EXCEPT ![t] = Resume(t)]
    /\ call' = [call EXCEPT ![t] = Returned(@, FALSE)]
    /\ fails' = IF t = Maintainer THEN Min(fails + 1, MaxFails) ELSE fails
    /\ UNCHANGED <<connection, calls>>
    /\ Settle(tstate, written)

\* -------------------------------------------------------------- disconnect
\* A guard that looks at the handle alone.
DisconnectGuardHandleOnly(ic, cn) == cn # None

\* Line 71: disconnect() acts only with a handle held and the flag set.
DisconnectGuard(ic, cn) == cn # None /\ ic

\* A disconnect() that gives up when the disconnect message could not be sent.
DisconnectAfterSendOrSkip(sent) == IF sent THEN "close" ELSE "skip"

\* Lines 74-80: what disconnect() does once its send_message has returned
\* `sent`.  The return value is not read and send_message does not raise, so
\* the close follows in either case.
DisconnectAfterSend(sent) == "close"

\* Line 86: the handle after disconnect(), given the handle held before.
HandleAfterDisconnect(cn) == None

\* Lines 85-86 and the return, run by the caller with call record rec.
DisconnectFinish(rec, ts) ==
    /\ is_connected' = FALSE
    /\ connection' = HandleAfterDisconnect(connection)
    /\ pc' = [pc EXCEPT ![Caller] = "idle"]
    /\ call' = [call EXCEPT ![Caller] = Returned(rec, FALSE)]
    /\ Settle(ts, written)

\* Line 80 onward: self.connection.close() on the handle held now.  With no
\* handle the attribute access raises, which line 82 catches.
DisconnectClose(rec) ==
    IF connection = None
    THEN DisconnectFinish(rec, tstate)
    ELSE \E ok \in BOOLEAN :
         /\ pc' = [pc EXCEPT ![Caller] = "closing"]
         /\ call' = [call EXCEPT ![Caller] = [rec EXCEPT !.ca = @ + 1]]
         /\ UNCHANGED <<is_connected, connection>>
         /\ Settle(StateAfterClose(tstate, connection, ok), written)

\* The caller calls disconnect(): lines 69-78, up to the await of
\* connection.send inside send_message, or the whole call when the guard fails.
CallDisconnect ==
    /\ UNCHANGED aux
    /\ pc[Caller] = "idle"
    /\ calls < MaxCalls
    /\ calls' = calls + 1
    /\ UNCHANGED fails
    /\ LET rec == NewCall("disconnect")
       IN  IF ~DisconnectGuard(is_connected, connection)
           THEN /\ call' = [call EXCEPT ![Caller] = Returned(rec, FALSE)]
                /\ UNCHANGED <<is_connected, connection, pc>>
                /\ Settle(tstate, written)
           ELSE IF NotConnected(is_connected, connection)
           THEN IF DisconnectAfterSend(FALSE) = "close"
                THEN DisconnectClose(rec)
                ELSE DisconnectFinish(rec, tstate)
           ELSE /\ UNCHANGED <<is_connected, connection>>
                /\ SendMessage(Caller, rec, DisconnectType, is_connected, connection,
                               tstate, written, "idle")

\* A disconnect() that drops the handle and leaves the flag as it is.
CloseDoneHandleOnly ==
    /\ UNCHANGED aux
    /\ pc[Caller] = "closing"
    /\ connection' = None
    /\ pc' = [pc EXCEPT ![Caller] = "idle"]
    /\ call' = [call EXCEPT ![Caller] = Returned(@, FALSE)]
    /\ UNCHANGED <<is_connected, calls, fails>>
    /\ Settle(tstate, written)

\* connection.close() returned or raised: lines 81-86.
CloseDone ==
    /\ UNCHANGED aux
    /\ pc[Caller] = "closing"
    /\ DisconnectFinish(call[Caller], tstate)
    /\ UNCHANGED <<calls, fails>>

\* ------------------------------------------------------------------- sends
\* A send that takes a failed transport write for the loss of the connection
\* and clears the flag.
CallSendClearsFlag(sender) ==
    /\ UNCHANGED aux
    /\ pc[Caller] = "idle"
    /\ calls < MaxCalls
    /\ calls' = calls + 1
    /\ UNCHANGED <<connection, fails>>
    /\ SendMessage(Caller, NewCall(sender), SenderType(sender), is_connected, connection,
                   tstate, written, "idle")
    /\ is_connected' = (is_connected /\ ~(pc'[Caller] = "sending" /\ call'[Caller].wo = 0))

\* The caller calls send_message, send_observation, send_exploration_result
\* or send_heartbeat: lines 115-157 build the envelope and hand it to
\* send_message.
CallSend(sender) ==
    /\ UNCHANGED aux
    /\ pc[Caller] = "idle"
    /\ calls < MaxCalls
    /\ calls' = calls + 1
    /\ UNCHANGED <<is_connected, connection, fails>>
    /\ SendMessage(Caller, NewCall(sender), SenderType(sender), is_connected, connection,
                   tstate, written, "idle")

\* connection.send returned or raised: send_message returns (lines 109-113),
\* and the method that called it runs on to its next await or to its return:
\* connect returns True (line 63), disconnect goes on to the close (line 80),
\* a sender hands the result back (lines 130, 147, 157).
SendDone(t) ==
    /\ UNCHANGED aux
    /\ pc[t] = "sending"
    /\ UNCHANGED <<calls, fails>>
    /\ LET rec == call[t]
       IN  CASE rec.op = "connect" ->
                  /\ pc' = [pc EXCEPT ![t] = Resume(t)]
                  /\ call' = [call EXCEPT ![t] = Returned(rec, TRUE)]
                  /\ UNCHANGED <<is_connected, connection>>
                  /\ Settle(tstate, written)
             [] rec.op = "disconnect" ->
                  IF DisconnectAfterSend(rec.res) = "close"
                  THEN DisconnectClose(rec)
                  ELSE DisconnectFinish(rec, tstate)
             [] OTHER ->
                  /\ pc' = [pc EXCEPT ![t] = Resume(t)]
                  /\ call' = [call EXCEPT ![t] = Returned(rec, rec.res)]
                  /\ UNCHANGED <<is_connected, connection>>
                  /\ Settle(tstate, written)

\* ------------------------------------------------------ maintain_connection
\* An iteration that gives up after MaxFails failed attempts in a row.
MCBranchCapped(ic) ==
    IF ic THEN "heartbeat" ELSE IF fails < MaxFails THEN "connect" ELSE "give_up"

\* An iteration with the two branches swapped.
MCBranchSwapped(ic) == IF ic THEN "connect" ELSE "heartbeat"

\* Lines 214-219: what an iteration does, given the flag it reads.
MCBranch(ic) == IF ic THEN "heartbeat" ELSE "connect"

\* asyncio.create_task(client.maintain_connection()): the loop is scheduled.
MCStart ==
    /\ UNCHANGED aux
    /\ pc[Maintainer] = "idle"
    /\ pc' = [pc EXCEPT ![Maintainer] = "scheduled"]
    /\ UNCHANGED <<is_connected, connection, tstate, written, call, calls, fails>>

\* One iteration of the loop, from its start or from the end of the sleep up
\* to the next await: send_heartbeat (lines 149-157, then send_message up to
\* connection.send) or connect() (up to websockets.connect).
MCIterate ==
    /\ UNCHANGED aux
    /\ pc[Maintainer] \in {"scheduled", "sleeping"}
    /\ UNCHANGED <<is_connected, connection, calls, fails>>
    /\ LET branch == MCBranch(is_connected)
       IN  CASE branch = "heartbeat" ->
                  SendMessage(Maintainer, NewCall("send_heartbeat"), HeartbeatType,
                              is_connected, connection, tstate, written, "sleeping")
             [] branch = "connect" ->
                  /\ pc' = [pc EXCEPT ![Maintainer] = "opening"]
                  /\ call' = [call EXCEPT ![Maintainer] = [NewCall("connect") EXCEPT !.tr = None]]
                  /\ Settle(tstate, written)
             [] OTHER ->
                  /\ pc' = [pc EXCEPT ![Maintainer] = "sleeping"]
                  /\ UNCHANGED <<tstate, written, call>>

\* --------------------------------------------------------- receive_messages
\* Line 176: the guard of receive_messages.
CannotReceive(ic, cn) == ~ic \/ cn = None

\* Lines 199-204: the flag after the iteration over the transport has ended,
\* given how it ended and the flag before.  Only the two except clauses clear
\* the flag; an iteration that finishes falls through to the return.
FlagAfterStream(how, ic) == IF how = "raised" THEN FALSE ELSE ic

\* asyncio.create_task(client.receive_messages()): lines 170-181, up to the
\* wait for the first inbound item.  The iteration is over the handle read
\* here.  The loop body (lines 182-198) changes neither the flag nor the handle.
RecvStart ==
    /\ UNCHANGED aux
    /\ pc[Receiver] = "idle"
    /\ UNCHANGED <<is_connected, connection, calls, fails>>
    /\ LET rec == NewCall("receive_messages")
       IN  IF CannotReceive(is_connected, connection)
           THEN /\ pc' = [pc EXCEPT ![Receiver] = "refused"]
                /\ call' = [call EXCEPT ![Receiver] = Returned(rec, FALSE)]
           ELSE /\ pc' = [pc EXCEPT ![Receiver] = "receiving"]
                /\ call' = [call EXCEPT ![Receiver] = rec]
    /\ Settle(tstate, written)

\* The iteration over the transport ends, by finishing or by raising:
\* lines 199-204 and the return.
RecvEnd ==
    /\ UNCHANGED aux
    /\ pc[Receiver] = "receiving"
    /\ LET how == StreamEnd(tstate[call[Receiver].tr])
       IN  /\ how # "none"
           /\ is_connected' = FlagAfterStream(how, is_connected)
           /\ pc' = [pc EXCEPT ![Receiver] = how]
           /\ call' = [call EXCEPT ![Receiver] = Returned(@, FALSE)]
    /\ UNCHANGED <<connection, calls, fails>>
    /\ Settle(tstate, written)

\* ------------------------------------------------------------ specification
Next ==
    \/ CallConnect
    \/ CallDisconnect
    \/ \E sender \in Senders : CallSend(sender)
    \/ \E t \in Connectors : ConnectOpened(t)
    \/ \E t \in Connectors : ConnectFailed(t)
    \/ \E t \in Connectors : SendDone(t)
    \/ CloseDone
    \/ MCStart
    \/ MCIterate
    \/ RecvStart
    \/ RecvEnd
    \/ \E h \in Transports : PeerClose(h)
    \/ \E h \in Transports : TransportError(h)

Spec == Init /\ [][Next]_vars

\* The event loop runs every task that is ready, and an awaited transport
\* operation, sleep or stream end eventually completes.  The caller's
\* operations and the transports' failures are under no obligation.
Fairness ==
    /\ WF_vars(MCIterate)
    /\ WF_vars(RecvEnd)
    /\ WF_vars(CloseDone)
    /\ \A t \in Connectors : WF_vars(SendDone(t))
    /\ \A t \in Connectors : WF_vars(ConnectOpened(t) \/ ConnectFailed(t))

FairSpec == Spec /\ Fairness


\* ------------------------------------------------------------------ steps
\* Task t's call of the method op returns in this step, having been suspended.
Returns(t, op) == call[t].op = op /\ ~call[t].done /\ call'[t].done

\* The caller calls the method op in this step.
CallerCalls(op) == calls' = calls + 1 /\ call'[Caller].op = op

\* maintain_connection starts an iteration in this step.
MCIterates ==
    /\ pc[Maintainer] \in {"scheduled", "sleeping"}
    /\ <<pc[Maintainer], call[Maintainer]>>' # <<pc[Maintainer], call[Maintainer]>>

\* ------------------------------------------------------------------ claims
\* C1: whenever connect() returns true, exactly one agent_connect message has
\* been written to the transport that this connect() call opened.
C1_HandshakeWritten ==
    [][\A t \in Connectors :
         (Returns(t, "connect") /\ call'[t].res)
         => /\ call[t].tr # None
            /\ Count(HandshakeType, written[call[t].tr]) = 1]_vars

\* C2: whenever the transport open inside connect() throws, connect() returns
\* false and afterwards is_connected is false and the handle is None, from
\* every state in which connect() can be called.
C2_FailedConnectClearsHandle ==
    [][\A t \in Connectors :
         (Returns(t, "connect") /\ pc[t] = "opening" /\ Len(tstate') = Len(tstate))
         => (~call'[t].res /\ ~is_connected' /\ connection' = None)]_vars

\* C3: whenever the inbound stream consumed by receive_messages ends, by
\* finishing or by raising, receive_messages returns and is_connected is
\* false afterwards.
C3_StreamEndDisconnects ==
    [][Returns(Receiver, "receive_messages") => ~is_connected']_vars

\* The transport held by a connected client has failed or was closed by the
\* peer, while receive_messages consumes it and maintain_connection runs.
TransportLost ==
    /\ Connected
    /\ tstate[connection] \in {"peer_closed", "broken"}
    /\ pc[Receiver] = "receiving"
    /\ call[Receiver].tr = connection
    /\ pc[Maintainer] # "idle"

\* C4: with receive_messages and maintain_connection running and fairly
\* scheduled, whenever the transport of a connected client fails or is closed
\* by the peer, the state eventually becomes disconnected and
\* maintain_connection eventually calls connect() again.
C4_LossLeadsToReconnect ==
    /\ TransportLost ~> ~is_connected
    /\ TransportLost ~> (pc[Maintainer] = "opening" \/ pc[Caller] \in {"opening", "closing"})

\* C5: when the client is not connected, send_message returns false and
\* performs no transport write; the same holds for send_observation,
\* send_exploration_result and send_heartbeat.
C5_NoSendWhileDisconnected ==
    [][\A sender \in Senders :
         (CallerCalls(sender) /\ ~Connected)
         => /\ call'[Caller].done
            /\ ~call'[Caller].res
            /\ pc'[Caller] = "idle"
            /\ written' = written
            /\ tstate' = tstate]_vars

C5_Witness ==
    /\ call[Caller].op \in Senders
    /\ call[Caller].done
    /\ ~call[Caller].res
    /\ tstate = <<>>


\* C6: while maintain_connection runs and the state is disconnected, every
\* iteration attempts connect(), however many attempts have failed in a row;
\* a disconnected state leads to a further attempt (or to a connection made
\* by the caller), and an open that the transport accepts makes the state
\* connected.
C6_RetryWithoutCap ==
    /\ [][(MCIterates /\ ~is_connected)
          => (pc'[Maintainer] = "opening" /\ call'[Maintainer].op = "connect")]_vars
    /\ [][\A t \in Connectors :
            (pc[t] = "opening" /\ Len(tstate') > Len(tstate)) => is_connected']_vars
    /\ (pc[Maintainer] \in {"scheduled", "sleeping"} /\ ~is_connected)
         ~> (pc[Maintainer] = "opening" \/ is_connected)

C6_Witness ==
    /\ fails = MaxFails
    /\ pc[Maintainer] = "opening"

\* C7: each iteration of maintain_connection performs exactly one action,
\* chosen by the flag read at its start (send_heartbeat if is_connected,
\* otherwise connect()), then sleeps whatever the outcome; the loop never
\* returns by itself.
C7_OneActionPerIteration ==
    [][/\ MCIterates
          => IF is_connected
             THEN /\ call'[Maintainer].op = "send_heartbeat"
                  /\ pc'[Maintainer] \in {"sending", "sleeping"}
             ELSE /\ call'[Maintainer].op = "connect"
                  /\ pc'[Maintainer] = "opening"
       /\ (pc[Maintainer] = "opening" /\ pc'[Maintainer] # "opening")
          => /\ pc'[Maintainer] \in {"sending", "sleeping"}
             /\ call'[Maintainer].op = "connect"
       /\ (pc[Maintainer] = "sending" /\ pc'[Maintainer] # "sending")
          => /\ pc'[Maintainer] = "sleeping"
             /\ call'[Maintainer].op = call[Maintainer].op
             /\ call'[Maintainer].done
       /\ pc[Maintainer] # "idle" => pc'[Maintainer] # "idle"
       /\ pc'[Maintainer] \in {"idle", "scheduled", "opening", "sending", "sleeping"}]_vars

C7_Witness ==
    /\ pc[Maintainer] = "sleeping"
    /\ call[Maintainer].op = "send_heartbeat"
    /\ ~call[Maintainer].res
    /\ is_connected

\* C8: disconnect() called in the connected state writes exactly one
\* agent_disconnect message to the transport, before the close is requested.
C8_ExactlyOneDisconnectWritten ==
    [][(Returns(Caller, "disconnect") /\ call[Caller].pre)
       => /\ call[Caller].wo = 1
          /\ Count(DisconnectType, written[call[Caller].tr]) = 1]_vars

\* C8, amended: disconnect() called in the connected state makes exactly one
\* attempt to write an agent_disconnect message, on the transport held when it
\* was called, and writes that message once if the write succeeds and not at
\* all if it fails; the attempt is over before the close is requested.
C8_OneDisconnectAttempt ==
    [][/\ (Returns(Caller, "disconnect") /\ call[Caller].pre)
          => /\ call[Caller].wa = 1
             /\ call[Caller].wo \in {0, 1}
             /\ Count(DisconnectType, written[call[Caller].tr]) = call[Caller].wo
       /\ (call[Caller].op = "disconnect" /\ call'[Caller].ca > call[Caller].ca)
          => /\ call[Caller].wa = 1
             /\ pc[Caller] = "sending"
             /\ call'[Caller].wa = 1]_vars

C8_Witness ==
    /\ pc[Caller] = "closing"
    /\ call[Caller].pre
    /\ call[Caller].wo = 1
    /\ Count(DisconnectType, written[call[Caller].tr]) = 1

\* C9: after disconnect() called in the connected state returns, is_connected
\* is false, the handle is None and a close of the transport has been
\* attempted, whether or not the agent_disconnect write failed and whether or
\* not the close failed.
C9_DisconnectClears ==
    [][(Returns(Caller, "disconnect") /\ call[Caller].pre)
       => /\ ~is_connected'
          /\ connection' = None
          /\ call[Caller].ca = 1]_vars

C9_Witness ==
    /\ pc[Caller] = "closing"
    /\ call[Caller].pre
    /\ call[Caller].wo = 0
    /\ call[Caller].ca = 1
    /\ tstate[connection] # "closed"

\* C10: disconnect() called when the client is not connected writes no
\* message, closes no transport and leaves is_connected and the handle
\* unchanged.
C10_DisconnectNoOp ==
    [][(CallerCalls("disconnect") /\ ~Connected)
       => /\ call'[Caller].done
          /\ pc'[Caller] = "idle"
          /\ written' = written
          /\ tstate' = tstate
          /\ is_connected' = is_connected
          /\ connection' = connection]_vars

C10_Witness ==
    /\ call[Caller].op = "disconnect"
    /\ call[Caller].done
    /\ pc[Maintainer] = "idle"
    /\ ~is_connected
    /\ connection # None

\* C14: send_message never raises: when the transport write fails on a
\* connected client it returns false, leaving the flag and the handle as they
\* are, and a later send_message on the same client is still attempted against
\* the transport.
C14_WriteFailureReturnsFalse ==
    [][/\ \A t \in Tasks :
            (\E sender \in Senders : Returns(t, sender))
            => /\ call'[t].res = (call[t].wo = 1)
               /\ call[t].wa = 1
               /\ is_connected' = is_connected
               /\ connection' = connection
       /\ \A sender \in Senders :
            (CallerCalls(sender) /\ Connected)
            => /\ pc'[Caller] = "sending"
               /\ call'[Caller].wa = 1
               /\ call'[Caller].tr = connection]_vars

C14_Witness ==
    /\ call[Maintainer].op = "send_heartbeat"
    /\ call[Maintainer].done
    /\ ~call[Maintainer].res
    /\ pc[Caller] = "sending"
    /\ call[Caller].op \in Senders
    /\ call[Caller].wa = 1
    /\ call[Caller].tr = connection

Background == {Receiver, Maintainer}

\* example() after lines 240-245: connect() has returned True with its
\* handshake written, receive_messages is consuming the transport and
\* maintain_connection is about to run its first iteration.
TeardownInit ==
    /\ is_connected = TRUE
    /\ connection = 1
    /\ tstate = <<"open">>
    /\ written = << <<HandshakeType>> >>
    /\ pc = [t \in Tasks |->
               CASE t = Receiver -> "receiving"
                 [] t = Maintainer -> "scheduled"
                 [] OTHER -> "idle"]
    /\ call = [t \in Tasks |->
                 CASE t = Receiver -> [NewCall("receive_messages") EXCEPT
                                         !.pre = TRUE, !.tr = 1]
                   [] t = Caller -> Returned(NewCall("connect"), TRUE)
                   [] OTHER -> NoCall]
    /\ calls = 1
    /\ fails = 0
    /\ DispatchIdle
    /\ EnvelopeIdle
    /\ orch = NoOrch
    /\ inbox = <<>>
    /\ handled = <<>>
    /\ dash = NoDash

\* task.cancel() by the workflow (lines 257-258): the task is resumed with
\* CancelledError, which no except clause of the client catches, so it ends
\* where it was suspended and the call it was in is abandoned.  Cancelling a
\* task that has already returned changes nothing but its mark.
Cancel(t) ==
    /\ UNCHANGED aux
    /\ pc[Caller] = "idle"
    /\ pc[t] \notin {"idle", "cancelled"}
    /\ pc' = [pc EXCEPT ![t] = "cancelled"]
    /\ call' = [call EXCEPT ![t] = Returned(@, FALSE)]
    /\ UNCHANGED <<is_connected, connection, calls, fails>>
    /\ Settle(tstate, written)

\* The client's steps once both tasks exist, and the two cancellations.
TeardownNext ==
    \/ CallConnect
    \/ CallDisconnect
    \/ \E sender \in Senders : CallSend(sender)
    \/ \E t \in Connectors : ConnectOpened(t)
    \/ \E t \in Connectors : ConnectFailed(t)
    \/ \E t \in Connectors : SendDone(t)
    \/ CloseDone
    \/ MCIterate
    \/ RecvEnd
    \/ \E h \in Transports : PeerClose(h)
    \/ \E h \in Transports : TransportError(h)
    \/ \E t \in Background : Cancel(t)

TeardownSpec == TeardownInit /\ [][TeardownNext]_vars

\* Both background tasks are cancelled and the last thing the workflow did is
\* a disconnect() that has returned.
TornDown ==
    /\ \A t \in Background : pc[t] = "cancelled"
    /\ pc[Caller] = "idle"
    /\ call[Caller].op = "disconnect"
    /\ call[Caller].done

\* C20: after the teardown, disconnect() together with the cancellation of
\* receive_messages and maintain_connection in either order, the client is
\* disconnected and no transport it opened remains open.
C20_TeardownReleases ==
    TornDown => /\ ~is_connected
                /\ \A h \in Transports : tstate[h] # "open"

\* ---------------------------------------------------------------- dispatch
\* The texts that can arrive on the stream: one that is not JSON, one that is
\* JSON but not an object, and objects with or without a "type" key.
Items ==
    {[kind |-> k, type |-> Absent, data |-> 0] : k \in {"invalid", "scalar"}}
    \cup [kind : {"object"}, type : MsgTypes \cup {Absent}, data : 1..MaxData]

\* Line 184, json.loads: the parsed value, or the error it raises.
JsonLoads(raw) ==
    CASE raw.kind = "invalid" -> [error |-> "JSONDecodeError"]
      [] raw.kind = "scalar" -> [error |-> "none", dict |-> FALSE]
      [] OTHER -> [error |-> "none", dict |-> TRUE,
                   type |-> raw.type, data |-> raw.data]

\* What the handler is called with: the parsed object itself (line 191).
Parsed(value) == [type |-> value.type, data |-> value.data]

\* A lookup that takes whatever handler the registry holds.
HandlerForAny(reg, type) ==
    IF \E T \in DOMAIN reg : reg[T] # NoHandler
    THEN reg[CHOOSE T \in DOMAIN reg : reg[T] # NoHandler]
    ELSE NoHandler

\* Lines 190-191: the handler registered for the type, if any.
HandlerFor(reg, type) ==
    IF type \in DOMAIN reg THEN reg[type] ELSE NoHandler

\* Lines 184-193: the handler to call for an inbound text, or the error
\* raised before any is called: JSONDecodeError from json.loads, or
\* AttributeError from data.get on a value that is not an object.
Dispatch(reg, raw) ==
    LET value == JsonLoads(raw)
    IN  CASE value.error # "none" -> [error |-> value.error, h |-> NoHandler]
          [] ~value.dict -> [error |-> "AttributeError", h |-> NoHandler]
          [] OTHER -> [error |-> "none", h |-> HandlerFor(reg, value.type)]

\* A loop that an error in its body ends.
LoopAfterErrorStops(error) == "raised"

\* Lines 195-198: both except clauses of the loop body only log, so the loop
\* goes on to wait for the next item.
LoopAfterError(error) == "receiving"

\* Where receive_messages is after the step that leaves it at `next`.
ReceiverAt(next) ==
    /\ pc' = [pc EXCEPT ![Receiver] = next]
    /\ call' = IF next \in {"receiving", "handling"}
               THEN call
               ELSE [call EXCEPT ![Receiver] = Returned(@, FALSE)]

\* Lines 181-193: the loop takes the next inbound text, parses it and calls
\* the handler of its type, which it awaits.
RecvItem(raw) ==
    /\ pc[Receiver] = "receiving"
    /\ tstate[call[Receiver].tr] = "open"
    /\ rx.n < MaxItems
    /\ LET d == Dispatch(message_handlers, raw)
       IN  /\ rx' = [n |-> rx.n + 1, item |-> raw, prev |-> rx.item.kind,
                     invoked |-> IF d.h # NoHandler
                                 THEN <<[h |-> d.h, msg |-> Parsed(JsonLoads(raw))]>>
                                 ELSE <<>>]
           /\ ReceiverAt(CASE d.h # NoHandler -> "handling"
                           [] d.error # "none" -> LoopAfterError(d.error)
                           [] OTHER -> "receiving")
    /\ UNCHANGED <<is_connected, connection, calls, fails, message_handlers, registered, evars, ovars, wvars>>
    /\ Settle(tstate, written)

\* Lines 191-198: the awaited handler returns, or raises an exception that
\* the loop body catches.
HandlerDone(raised) ==
    /\ pc[Receiver] = "handling"
    /\ ReceiverAt(IF raised THEN LoopAfterError("Exception") ELSE "receiving")
    /\ UNCHANGED <<is_connected, connection, calls, fails, aux>>
    /\ Settle(tstate, written)

\* A registry that keeps the first handler registered for a type.
RegistryKeepsFirst(reg, type, h) ==
    IF reg[type] = NoHandler THEN [reg EXCEPT ![type] = h] ELSE reg

\* Line 167: self.message_handlers[message_type] = handler.
RegistryAfter(reg, type, h) == [reg EXCEPT ![type] = h]

\* register_message_handler, lines 159-168, called by the workflow.
Register(type, h) ==
    /\ pc[Caller] = "idle"
    /\ Len(registered) < MaxRegs
    /\ message_handlers' = RegistryAfter(message_handlers, type, h)
    /\ registered' = Append(registered, <<type, h>>)
    /\ UNCHANGED <<is_connected, connection, tstate, written, pc, call, calls, fails, rx, evars, ovars, svars, wvars>>

\* A client whose connect() has returned True and whose receive_messages is
\* waiting for its first inbound item (example, lines 240-242).
DispatchInit ==
    /\ is_connected = TRUE
    /\ connection = 1
    /\ tstate = <<"open">>
    /\ written = << <<HandshakeType>> >>
    /\ pc = [t \in Tasks |-> IF t = Receiver THEN "receiving" ELSE "idle"]
    /\ call = [t \in Tasks |->
                 CASE t = Receiver -> [NewCall("receive_messages") EXCEPT
                                         !.pre = TRUE, !.tr = 1]
                   [] t = Caller -> Returned(NewCall("connect"), TRUE)
                   [] OTHER -> NoCall]
    /\ calls = 1
    /\ fails = 0
    /\ DispatchIdle
    /\ EnvelopeIdle
    /\ orch = NoOrch
    /\ inbox = <<>>
    /\ handled = <<>>
    /\ dash = NoDash

DispatchNext ==
    \/ \E type \in MsgTypes, h \in Handlers : Register(type, h)
    \/ \E raw \in Items : RecvItem(raw) /\ UNCHANGED svars
    \/ \E raised \in BOOLEAN : HandlerDone(raised)
    \/ RecvEnd
    \/ \E h \in Transports : PeerClose(h)
    \/ \E h \in Transports : TransportError(h)

DispatchSpec == DispatchInit /\ [][DispatchNext]_vars

\* receive_messages takes an inbound item in this step.
TakesItem == rx'.n = rx.n + 1

\* C11: for every inbound message that parses as JSON with type T, if a
\* handler is registered for T at dispatch time that handler is invoked
\* exactly once with the parsed message and no other handler is invoked; if
\* none is registered no handler is invoked and receive_messages goes on to the
\* next inbound message.
C11_DispatchByType ==
    [][/\ (TakesItem /\ rx'.item.kind = "object")
          => LET T == rx'.item.type
             IN  IF T \in MsgTypes /\ message_handlers[T] # NoHandler
                 THEN /\ rx'.invoked = <<[h |-> message_handlers[T],
                                          msg |-> [type |-> T, data |-> rx'.item.data]]>>
                      /\ pc'[Receiver] = "handling"
                 ELSE /\ rx'.invoked = <<>>
                      /\ pc'[Receiver] = "receiving"
       /\ rx'.invoked # rx.invoked => TakesItem
       /\ (pc[Receiver] = "handling" /\ pc'[Receiver] # "handling")
          => pc'[Receiver] = "receiving"]_vars

C11_Witness ==
    /\ pc[Receiver] = "handling"
    /\ rx.n = 2
    /\ Len(rx.invoked) = 1
    /\ \A T \in MsgTypes : message_handlers[T] # NoHandler
    /\ \E T \in MsgTypes : message_handlers[T] # rx.invoked[1].h

\* C12: an inbound payload that is not valid JSON invokes no handler, changes
\* neither is_connected nor the connection handle, and does not stop
\* receive_messages: the items that follow it are still parsed and dispatched.
C12_BadPayloadSkipped ==
    [][/\ (TakesItem /\ rx'.item.kind = "invalid")
          => /\ rx'.invoked = <<>>
             /\ pc'[Receiver] = "receiving"
             /\ ~call'[Receiver].done
             /\ is_connected' = is_connected
             /\ connection' = connection
             /\ message_handlers' = message_handlers
       /\ (TakesItem /\ rx.item.kind = "invalid" /\ rx'.item.kind = "object"
             /\ rx'.item.type \in MsgTypes)
          => IF message_handlers[rx'.item.type] # NoHandler
             THEN /\ Len(rx'.invoked) = 1
                  /\ rx'.invoked[1].h = message_handlers[rx'.item.type]
             ELSE rx'.invoked = <<>>]_vars

C12_Witness ==
    /\ rx.prev = "invalid"
    /\ rx.item.kind = "object"
    /\ Len(rx.invoked) = 1
    /\ pc[Receiver] = "handling"
    /\ is_connected

\* The handler that the register_message_handler calls of the log, taken in
\* order, leave for the type: the one of the last call for that type.
RECURSIVE LastRegistered(_, _)
LastRegistered(type, log) ==
    IF log = <<>> THEN NoHandler
    ELSE IF log[Len(log)][1] = type THEN log[Len(log)][2]
    ELSE LastRegistered(type, SubSeq(log, 1, Len(log) - 1))

\* C16: after any sequence of register_message_handler calls the registry
\* holds for each type the handler registered last for it, a dispatch for type
\* T invokes only that handler, and registering changes neither is_connected
\* nor the handle, nor the handlers of the other types.
C16_LastRegistrationWins ==
    /\ [](\A T \in MsgTypes : message_handlers[T] = LastRegistered(T, registered))
    /\ [][/\ registered' # registered
             => /\ is_connected' = is_connected
                /\ connection' = connection
                /\ \A T \in MsgTypes :
                     T # registered'[Len(registered')][1]
                     => message_handlers'[T] = message_handlers[T]
          /\ (TakesItem /\ rx'.invoked # <<>>)
             => /\ Len(rx'.invoked) = 1
                /\ rx'.invoked[1].h = LastRegistered(rx'.item.type, registered)]_vars

C16_Witness ==
    /\ Len(registered) = 2
    /\ registered[1][1] = registered[2][1]
    /\ registered[1][2] # registered[2][2]
    /\ pc[Receiver] = "handling"
    /\ rx.item.type = registered[2][1]
    /\ rx.invoked[1].h = registered[2][2]

\* ---------------------------------------------------------------- messages
\* The identity the client was constructed with (example, lines 229-230).
AgentId == "tech_enthusiast_1"
AgentType == "tech_enthusiast"

\* datetime.now().isoformat(), and a timestamp or an id the caller put in.
Now == "now"
Given == "given"

\* The payloads the workflow passes to send_observation and
\* send_exploration_result.
Bodies == 1..MaxData

\* The dicts the workflow builds for send_message: with or without a type, an
\* id and a timestamp of its own.
CallerMessages ==
    [type : {CustomType, Absent}, agent_id : {Absent}, agent_type : {Absent},
     id : {NoId, GivenId}, timestamp : {Absent, Given}, body : {1}]

\* An id generator that hands out the same value every time.
Uuid4Constant(n) == [kind |-> "uuid", n |-> 1]

\* uuid.uuid4() when n values have been drawn: a value not drawn before
\* (version 4 UUIDs are taken to be pairwise distinct).
Uuid4(n) == [kind |-> "uuid", n |-> n + 1]

\* Lines 122-128, 139-145 and 151-155: the envelope each sender builds.
Envelope(sender, body) ==
    CASE sender = "send_observation" ->
           [type |-> ObservationType, agent_id |-> AgentId, agent_type |-> AgentType,
            id |-> NoId, timestamp |-> Now, body |-> body]
      [] sender = "send_exploration_result" ->
           [type |-> ResultType, agent_id |-> AgentId, agent_type |-> AgentType,
            id |-> NoId, timestamp |-> Now, body |-> body]
      [] OTHER ->
           [type |-> HeartbeatType, agent_id |-> AgentId, agent_type |-> Absent,
            id |-> NoId, timestamp |-> Now, body |-> 0]

\* Lines 101-106: send_message fills in the id and the timestamp that the
\* dict lacks, in place.
Stamped(m, n) ==
    [m EXCEPT !.id = IF @ = NoId THEN Uuid4(n) ELSE @,
              !.timestamp = IF @ = Absent THEN Now ELSE @]

\* Lines 108-113: what send_message returns once connection.send is over.
\* After a write that succeeded, line 109 reads message['type'] for the log.
SendResult(ok, m) == ok /\ m.type # Absent

\* What a written payload shows of its id and timestamp, and whether the dict
\* lacked an id when send_message was called with it.
OnWire(m, lacked) == [id |-> m.id, timestamp |-> m.timestamp, lacked |-> lacked]

\* A send by the workflow, up to the await of connection.send: a sender
\* (lines 115-157) builds its envelope and hands it to send_message, or the
\* workflow hands send_message (lines 88-108) the dict o it holds.
EnvSend(sender, o, body) ==
    /\ pc[Caller] = "idle"
    /\ calls < MaxSends
    /\ calls' = calls + 1
    /\ LET m == IF sender = "send_message" THEN msgs[o] ELSE Envelope(sender, body)
           rec == NewCall(sender)
       IN  IF NotConnected(is_connected, connection)
           THEN /\ out' = [sender |-> sender, arg |-> body, handed |-> m, sent |-> NoMessage,
                           lacked |-> m.id = NoId]
                /\ pc' = pc
                /\ call' = [call EXCEPT ![Caller] = Returned(rec, FALSE)]
                /\ UNCHANGED <<msgs, issued, wire, tstate, written>>
           ELSE \E ok \in (IF tstate[connection] = "open" THEN {TRUE, FALSE} ELSE {FALSE}) :
                LET s == Stamped(m, issued)
                IN  /\ out' = [sender |-> sender, arg |-> body, handed |-> m, sent |-> s,
                               lacked |-> m.id = NoId]
                    /\ msgs' = IF sender = "send_message"
                               THEN [msgs EXCEPT ![o] = s] ELSE msgs
                    /\ issued' = IF m.id = NoId THEN issued + 1 ELSE issued
                    /\ wire' = IF ok THEN Append(wire, OnWire(s, m.id = NoId)) ELSE wire
                    /\ tstate' = StateAfterWrite(tstate, connection, ok)
                    /\ written' = LogAfterWrite(written, connection, s.type, ok)
                    /\ pc' = [pc EXCEPT ![Caller] = "sending"]
                    /\ call' = [call EXCEPT ![Caller] = Sent(rec, ok)]
    /\ UNCHANGED <<is_connected, connection, fails, dvars, ovars, svars, wvars>>

\* connection.send is over: send_message returns, and the sender that called
\* it returns what it returned (lines 130, 147, 157).
EnvReturn ==
    /\ pc[Caller] = "sending"
    /\ pc' = [pc EXCEPT ![Caller] = "idle"]
    /\ call' = [call EXCEPT ![Caller] = Returned(@, SendResult(@.res, out.sent))]
    /\ UNCHANGED <<is_connected, connection, tstate, written, calls, fails, aux>>

\* A client just constructed, or one whose connect() has returned True with
\* its handshake written; the workflow holds the dicts it will send.
EnvelopeInit ==
    /\ \E connected \in BOOLEAN :
         /\ is_connected = connected
         /\ connection = IF connected THEN 1 ELSE None
         /\ tstate = IF connected THEN <<"open">> ELSE <<>>
         /\ written = IF connected THEN << <<HandshakeType>> >> ELSE <<>>
         /\ call = [t \in Tasks |->
                      IF connected /\ t = Caller
                      THEN Returned(NewCall("connect"), TRUE) ELSE NoCall]
         /\ calls = IF connected THEN 1 ELSE 0
    /\ pc = [t \in Tasks |-> "idle"]
    /\ fails = 0
    /\ DispatchIdle
    /\ orch = NoOrch
    /\ inbox = <<>>
    /\ handled = <<>>
    /\ dash = NoDash
    /\ msgs \in [1..MaxMsgs -> CallerMessages]
    /\ issued = 0
    /\ out = NoOut
    /\ wire = <<>>

EnvelopeNext ==
    \/ \E o \in DOMAIN msgs : EnvSend("send_message", o, 0)
    \/ \E sender \in {"send_observation", "send_exploration_result"}, body \in Bodies :
         EnvSend(sender, 1, body)
    \/ EnvSend("send_heartbeat", 1, 0)
    \/ EnvReturn

EnvelopeSpec == EnvelopeInit /\ [][EnvelopeNext]_vars

\* C13: every payload that send_message writes contains both an id and a
\* timestamp; a message without an id gets a fresh one, and any two
\* send_message calls made with messages lacking an id transmit distinct ids.
C13_IdAndTimestamp ==
    /\ \A i \in DOMAIN wire :
         /\ wire[i].id # NoId
         /\ wire[i].timestamp # Absent
         /\ wire[i].lacked => (wire[i].id.kind = "uuid" /\ wire[i].id.n \in 1..issued)
    /\ \A i, j \in DOMAIN wire :
         (i # j /\ wire[i].lacked /\ wire[j].lacked) => wire[i].id # wire[j].id

C13_Witness ==
    /\ Len(wire) = 2
    /\ wire[1].lacked
    /\ wire[2].lacked
    /\ out.sender = "send_message"
    /\ pc[Caller] = "idle"

\* The senders that build an envelope of their own.
EnvelopeSenders == {"send_observation", "send_exploration_result", "send_heartbeat"}

\* C15: each of send_observation, send_exploration_result and send_heartbeat
\* hands send_message one envelope of its own type, and every one of the three
\* envelopes carries the configured agent_id, the configured agent_type and a
\* timestamp, plus the unmodified payload for the first two; each returns what
\* send_message returns.
C15_SenderEnvelopes ==
    [][\A sender \in EnvelopeSenders :
         /\ (calls' = calls + 1 /\ out'.sender = sender)
            => /\ out'.handed.type = SenderType(sender)
               /\ out'.handed.agent_id = AgentId
               /\ out'.handed.agent_type = AgentType
               /\ out'.handed.timestamp # Absent
               /\ sender # "send_heartbeat" => out'.handed.body = out'.arg
         /\ Returns(Caller, sender)
            => call'[Caller].res = SendResult(call[Caller].res, out.sent)]_vars

(***************************************************************************)
(* The exploration orchestrator (diverse_mercadolivre_orchestrator.py).    *)
(* A step is the code between two awaits; the agent runs (Runner.run) are  *)
(* the awaits, and each of them either returns an output or raises.        *)
(***************************************************************************)

\* The client's variables, which the orchestrator never touches.
cvars == <<is_connected, connection, tstate, written, pc, call, calls, fails>>

\* load_personas, lines 50-53: the persona types the database hands out.
PersonaTypes ==
    {"tech_enthusiast", "budget_shopper", "gift_buyer", "family_shopper",
     "business_buyer", "senior_shopper", "luxury_shopper"}

\* A persona type a caller may pass that none of lines 369-381 names.
OtherType == "other"

\* explore_with_persona, lines 369-384: the prompt chosen from the type.
Prompt(ptype) ==
    CASE ptype = "tech_enthusiast" -> "electronics and technology"
      [] ptype = "budget_shopper" -> "deals and discounts"
      [] ptype = "gift_buyer" -> "gift shopping"
      [] ptype = "family_shopper" -> "family-oriented products"
      [] ptype = "business_buyer" -> "business purchases"
      [] ptype = "senior_shopper" -> "user-friendly navigation"
      [] ptype = "luxury_shopper" -> "premium and luxury"
      [] OTHER -> "preferred categories"

\* What an agent run can return as final_output: a dict or a JSON text of a
\* dict (with obs observations under 'observations', 0 when the key is
\* missing or the list empty), a JSON text of something else, a text that is
\* no JSON, or any other object.
Outputs ==
    [kind : {"dict", "json_dict"}, obs : 0..MaxObs]
        \cup [kind : {"json_other", "text", "other"}, obs : {0}]

\* The message of the exception an agent run raises.
RunnerError == "Test error"

\* str(e) of the KeyError of line 417.
KeyErrorText == "'time_spent_minutes'"

\* explore_with_persona, lines 391-410: how many observations the result
\* carries.
Observations(output) ==
    LET extracted ==
            CASE output.kind \in {"dict", "json_dict"} -> output.obs
              [] output.kind = "json_other" -> 0
              [] OTHER -> 1
    IN  IF extracted = 0 THEN 1 ELSE extracted

\* Lines 412-419: the result of an exploration.
ExploreResult(output) ==
    [kind |-> "returned",
     keys |-> {"persona_id", "name", "type", "exploration_time",
               "time_spent_minutes", "observations"},
     complete |-> FALSE, count_key |-> Absent, count |-> 0,
     observations |-> Observations(output), error |-> Absent,
     mentions_error |-> FALSE]

\* Lines 421-430: the result built when the processing of lines 390-419
\* raised.
ErrorResult(text) ==
    [kind |-> "returned",
     keys |-> {"persona_id", "name", "type", "exploration_time",
               "observations", "error"},
     complete |-> FALSE, count_key |-> Absent, count |-> 0,
     observations |-> 1, error |-> text, mentions_error |-> TRUE]

\* An exception that leaves the method: the caller gets no result.
Propagated(text) ==
    [NoResult EXCEPT !.kind = "raised", !.error = text]

\* explore_with_persona, lines 387-430, once the agent run of line 387 is
\* over. The await of line 387 stands before the try of line 390, so an
\* exception of the run leaves the method; the except of line 421 catches
\* only what lines 391-419 raise.
Explored(raises, timed, output) ==
    IF raises THEN Propagated(RunnerError)
    ELSE IF ~timed THEN ErrorResult(KeyErrorText)
    ELSE ExploreResult(output)

\* explore_with_persona, lines 362-387: up to the await of the agent run.
\* timed says whether the persona carries time_spent_minutes.
ExploreCall(ptype, timed) ==
    /\ orch.pc = "idle"
    /\ orch.op = "none"
    /\ orch' = [orch EXCEPT !.op = "explore", !.pc = "running",
                            !.ptype = ptype, !.prompt = Prompt(ptype),
                            !.timed = timed]
    /\ UNCHANGED <<cvars, dvars, evars, svars, wvars>>

\* explore_with_persona, lines 387-430: the agent run ends.
ExploreDone(raises, output) ==
    /\ orch.op = "explore"
    /\ orch.pc = "running"
    /\ orch' = [orch EXCEPT
                  !.pc = "done",
                  !.fault = IF raises THEN "runner"
                            ELSE IF ~orch.timed THEN "processing" ELSE "none",
                  !.output = IF raises THEN orch.output ELSE output,
                  !.result = Explored(raises, orch.timed, output)]
    /\ UNCHANGED <<cvars, dvars, evars, svars, wvars>>

\* The seven phases, as lines 153, 165, 173, 188, 220, 239 and 251 announce
\* them.
PhaseOrder ==
    <<"context", "research_plan", "load", "interviews", "processing",
      "analysis", "recommendations">>

\* Line 214: at most this many interviews are held.
InterviewLimit == 5

\* Lines 274-283: the dict run_exploration_with_diverse_personas returns.
RunResult(interviewed) ==
    [kind |-> "returned",
     keys |-> {"exploration_complete", "personas_interviewed",
               "persona_types", "company_context", "processed_feedback",
               "data_analysis", "final_recommendations",
               "exploration_time_minutes"},
     complete |-> TRUE, count_key |-> "personas_interviewed",
     count |-> interviewed,
     observations |-> 0, error |-> Absent, mentions_error |-> FALSE]

\* Lines 147-154: the call, up to the await of the context run.
RunCall(n) ==
    /\ orch.pc = "idle"
    /\ orch.op = "none"
    /\ orch' = [orch EXCEPT !.op = "run", !.pc = "context", !.n = n,
                            !.phases = <<"context">>]
    /\ UNCHANGED <<cvars, dvars, evars, svars, wvars>>

\* Lines 214-231: the next interview if one is left, the processing run
\* otherwise.
AfterInterviews(o) ==
    IF o.interviewed < Min(InterviewLimit, o.n)
    THEN [o EXCEPT !.pc = "interviews"]
    ELSE [o EXCEPT !.pc = "processing",
                   !.phases = Append(o.phases, "processing")]

\* Lines 194-214: the next interview prompt if a persona type is left
\* without one, the interviews otherwise.
AfterPrompts(o) ==
    IF o.types > 0 THEN [o EXCEPT !.pc = "prompts"] ELSE AfterInterviews(o)

\* run_exploration_with_diverse_personas, lines 154-283: the awaited run (or
\* interview) returns, and the method goes on to its next await or to its
\* return. types is the number of distinct types among the loaded personas.
RunStep(types) ==
    /\ orch.op = "run"
    /\ orch.pc \notin {"idle", "done"}
    /\ orch' =
         CASE orch.pc = "context" ->
                [orch EXCEPT !.pc = "research_plan",
                             !.phases = Append(@, "research_plan")]
           [] orch.pc = "research_plan" ->
                \* line 174: load_personas has no await of its own
                AfterPrompts([orch EXCEPT
                                !.loads = Append(@, orch.n),
                                !.types = IF orch.n = 0 THEN 0
                                          ELSE Min(types, orch.n),
                                !.phases = @ \o <<"load", "interviews">>])
           [] orch.pc = "prompts" ->
                AfterPrompts([orch EXCEPT !.types = @ - 1])
           [] orch.pc = "interviews" ->
                AfterInterviews([orch EXCEPT !.interviewed = @ + 1])
           [] orch.pc = "processing" ->
                [orch EXCEPT !.pc = "analysis",
                             !.phases = Append(@, "analysis")]
           [] orch.pc = "analysis" ->
                [orch EXCEPT !.pc = "recommendations",
                             !.phases = Append(@, "recommendations")]
           [] orch.pc = "recommendations" ->
                [orch EXCEPT !.pc = "done",
                             !.result = RunResult(orch.interviewed)]
    /\ UNCHANGED <<cvars, dvars, evars, svars, wvars>>

\* Any of the awaits of lines 154-253 and 305 raises: no try surrounds
\* them, so the exception leaves run_exploration_with_diverse_personas.
RunRaises ==
    /\ orch.op = "run"
    /\ orch.pc \notin {"idle", "done"}
    /\ orch' = [orch EXCEPT !.pc = "done", !.fault = "runner",
                            !.result = Propagated(RunnerError)]
    /\ UNCHANGED <<cvars, dvars, evars, svars, wvars>>

\* The orchestrator on its own: one call of either method, with every
\* persona, count and outcome of the agent runs.
OrchestratorNext ==
    \/ \E ptype \in PersonaTypes \cup {OtherType}, timed \in BOOLEAN :
            ExploreCall(ptype, timed)
    \/ \E raises \in BOOLEAN, output \in Outputs : ExploreDone(raises, output)
    \/ \E n \in 0..MaxPersonas : RunCall(n)
    \/ \E types \in 1..MaxTypes : RunStep(types)
    \/ RunRaises

OrchestratorSpec == Init /\ [][OrchestratorNext]_vars

\* explore_with_persona hands its caller something: a result or an
\* exception.
ExploreEnds ==
    /\ orch.op = "explore"
    /\ orch.pc = "running"
    /\ orch'.pc = "done"

\* C17: when the agent run inside explore_with_persona raises, the method
\* returns a result whose error is the exception's message and whose single
\* observation mentions the error; the exception does not reach the caller.
C17_RunErrorBecomesResult ==
    [][(ExploreEnds /\ orch'.fault = "runner") =>
            /\ orch'.result.kind = "returned"
            /\ "error" \in orch'.result.keys
            /\ orch'.result.error = RunnerError
            /\ orch'.result.observations = 1
            /\ orch'.result.mentions_error]_vars

\* run_exploration_with_diverse_personas returns its dict.
RunReturns ==
    /\ orch.op = "run"
    /\ orch.pc = "recommendations"
    /\ orch'.result.kind = "returned"

\* C18: run_exploration_with_diverse_personas(persona_count = n) loads the
\* personas exactly once with count n, runs its seven phases in order, and
\* returns a result with exploration_complete true and a
\* personas_participated field counting the personas that took part.
C18_RunReportsParticipants ==
    [][RunReturns =>
            /\ orch'.loads = <<orch.n>>
            /\ orch'.phases = PhaseOrder
            /\ orch'.result.complete
            /\ "personas_participated" \in orch'.result.keys
            /\ orch'.result.count_key = "personas_participated"
            /\ orch'.result.count = orch.interviewed]_vars

(***************************************************************************)
(* Concurrency of the client's methods (websocket_client.py).              *)
(***************************************************************************)

\* A step of the environment: a transport is closed by the peer or breaks,
\* and no task of the client moves.
EnvironmentStep == pc' = pc /\ call' = call

\* C21: nothing serialises two concurrent connect() calls: they open two
\* transports and send two handshakes, the handle refers to the one opened
\* last, and the client never closes the other: no step of the client ends a
\* transport that is open and is not the handle, and the handle never goes
\* back to a transport opened earlier.
C21_OrphanNeverClosed ==
    [][/\ \A h \in Transports :
            (tstate[h] = "open" /\ h # connection /\ tstate'[h] # "open")
            => EnvironmentStep
       /\ connection' # connection
            => (connection' = None \/ Len(tstate') > Len(tstate))
       /\ Len(tstate') > Len(tstate) => connection' = Len(tstate')]_vars

C21_Witness ==
    /\ Len(tstate) = 2
    /\ \A t \in Connectors :
         /\ pc[t] = "sending"
         /\ call[t].op = "connect"
    /\ call[Caller].tr # call[Maintainer].tr
    /\ \A h \in Transports :
         /\ tstate[h] = "open"
         /\ written[h] = <<HandshakeType>>
    /\ connection = 2

\* The workflow alone with its receive loop: it connects, registers handlers,
\* sends, starts receive_messages and disconnects, while the transports may
\* be closed by the peer or break.
FrameNext ==
    \/ \E type \in MsgTypes, h \in Handlers : Register(type, h)
    \/ CallConnect
    \/ CallDisconnect
    \/ \E sender \in Senders : CallSend(sender)
    \/ ConnectOpened(Caller)
    \/ ConnectFailed(Caller)
    \/ SendDone(Caller)
    \/ CloseDone
    \/ RecvStart
    \/ RecvEnd
    \/ \E h \in Transports : PeerClose(h)
    \/ \E h \in Transports : TransportError(h)

FrameSpec == Init /\ [][FrameNext]_vars

\* The methods that assign self.is_connected or self.connection.
Movers == {"connect", "disconnect", "receive_messages"}

\* A step that some task takes inside connect, disconnect or receive_messages.
MoverStep ==
    \E t \in Tasks :
        /\ call[t].op \in Movers
        /\ ~call[t].done
        /\ <<pc[t], call[t]>>' # <<pc[t], call[t]>>

\* C22: only connect, disconnect and receive_messages change is_connected or
\* the handle: send_message, send_observation, send_exploration_result,
\* send_heartbeat and register_message_handler leave both as they are, when
\* they succeed and when they fail, so a failed transport write alone never
\* moves the client to disconnected.
C22_OnlyMoversChangeState ==
    [][/\ (is_connected' # is_connected \/ connection' # connection) => MoverStep
       /\ \A sender \in Senders :
            (CallerCalls(sender) \/ Returns(Caller, sender))
            => (is_connected' = is_connected /\ connection' = connection)
       /\ registered' # registered
            => (is_connected' = is_connected /\ connection' = connection)]_vars

C22_Witness ==
    /\ pc[Caller] = "sending"
    /\ call[Caller].op \in Senders
    /\ call[Caller].wa = 1
    /\ call[Caller].wo = 0
    /\ Connected
    /\ tstate[connection] = "broken"
    /\ pc[Receiver] = "receiving"
    /\ Len(registered) = MaxRegs

\* The type of the message that a method hands to send_message.
CallType(op) ==
    CASE op = "connect" -> HandshakeType
      [] op = "disconnect" -> DisconnectType
      [] OTHER -> SenderType(op)

\* Task t passes the guard of send_message in this step (line 95) and is
\* suspended in connection.send at the end of it (line 108).
StartsWrite(t) == pc[t] # "sending" /\ pc'[t] = "sending"

\* The log of transport h before this step, empty for a transport that the
\* step opens.
LogBefore(h) == IF h \in Transports THEN written[h] ELSE <<>>

NextInboundNewest(q, n) == q[Len(q)]

\* async for message in self.connection (line 181): the next text is the
\* oldest one not yet taken, n texts having been taken.
NextInbound(q, n) == q[n + 1]

\* The example's registry when the receive loop runs: handle_command for
\* "command" (lines 234-237), nothing for any other type.
ExampleHandlers == [T \in MsgTypes |-> IF T = "command" THEN 1 ELSE NoHandler]

\* example after lines 237-242: one handler registered, connect() returned
\* True, receive_messages waiting for the first inbound text.
StreamInit ==
    /\ is_connected = TRUE
    /\ connection = 1
    /\ tstate = <<"open">>
    /\ written = << <<HandshakeType>> >>
    /\ pc = [t \in Tasks |-> IF t = Receiver THEN "receiving" ELSE "idle"]
    /\ call = [t \in Tasks |->
                 CASE t = Receiver -> [NewCall("receive_messages") EXCEPT
                                         !.pre = TRUE, !.tr = 1]
                   [] t = Caller -> Returned(NewCall("connect"), TRUE)
                   [] OTHER -> NoCall]
    /\ calls = 1
    /\ fails = 0
    /\ message_handlers = ExampleHandlers
    /\ registered = << <<"command", 1>> >>
    /\ rx = NoItem
    /\ EnvelopeIdle
    /\ orch = NoOrch
    /\ inbox = <<>>
    /\ handled = <<>>
    /\ dash = NoDash

\* The peer sends a text on the transport the loop iterates over: it arrives
\* behind those that arrived before, whether the loop is waiting for a text
\* or is inside a handler.
Arrive(raw) ==
    /\ pc[Receiver] \in {"receiving", "handling"}
    /\ tstate[call[Receiver].tr] = "open"
    /\ Len(inbox) < MaxItems
    /\ inbox' = Append(inbox, raw)
    /\ UNCHANGED <<cvars, dvars, evars, ovars, handled, wvars>>

\* A loop that goes on taking texts after receive_messages has returned.
RecvNextWhenEnded ==
    /\ rx.n < Len(inbox)
    /\ rx.n < MaxItems
    /\ rx' = [n |-> rx.n + 1, item |-> NextInbound(inbox, rx.n),
              prev |-> rx.item.kind, invoked |-> <<>>]
    /\ UNCHANGED <<cvars, message_handlers, registered, evars, ovars, svars, wvars>>

\* Line 181: the loop, waiting for a text, takes the next one that arrived
\* (lines 182-198 as in RecvItem).
RecvNext ==
    /\ rx.n < Len(inbox)
    /\ RecvItem(NextInbound(inbox, rx.n))
    /\ UNCHANGED svars

StreamNext ==
    \/ \E raw \in Items : Arrive(raw)
    \/ RecvNext
    \/ \E raised \in BOOLEAN : HandlerDone(raised)
    \/ RecvEnd
    \/ \E h \in Transports : PeerClose(h)
    \/ \E h \in Transports : TransportError(h)

StreamSpec == StreamInit /\ [][StreamNext]_vars

\* C24: receive_messages dispatches the inbound messages one at a time in
\* arrival order: message k+1 is read only when the loop is not inside the
\* handler of message k, the message read is the oldest one not yet read, a
\* handler is invoked only for the message just read, and at most one
\* handler is active at any time.
C24_OneAtATimeInOrder ==
    /\ [](/\ Len(rx.invoked) <= 1
          /\ pc[Receiver] = "handling" => Len(rx.invoked) = 1
          /\ rx.n > 0 => (rx.n <= Len(inbox) /\ rx.item = inbox[rx.n]))
    /\ [][/\ TakesItem => pc[Receiver] = "receiving"
          /\ pc[Receiver] = "handling"
               => (rx' = rx \/ pc'[Receiver] # "handling")
          /\ rx'.invoked # rx.invoked => TakesItem]_vars

C24_Witness ==
    /\ pc[Receiver] = "handling"
    /\ rx.n = 1
    /\ Len(inbox) = 2
    /\ inbox[2].kind = "object"
    /\ inbox[2].type = "command"
    /\ inbox[2] # inbox[1]

\* C25: in every state that the client's own methods reach, under any
\* interleaving of the three tasks, is_connected = true implies that the
\* connection handle is not None.
C25_FlagImpliesHandle == is_connected => connection # None

C25_Witness ==
    /\ is_connected
    /\ connection # None
    /\ pc[Caller] = "closing"
    /\ pc[Maintainer] = "sending"
    /\ pc[Receiver] = "receiving"
    /\ Len(tstate) = 2

\* C26: whenever connect() returns true, the client is in the connected
\* state with a handle held at the moment it returns, also when a disconnect()
\* or the end of the stream in receive_messages falls into the time the
\* handshake write is suspended.
C26_TrueMeansConnected ==
    [][\A t \in Connectors :
         (Returns(t, "connect") /\ call'[t].res)
         => (is_connected' /\ connection' # None)]_vars

(***************************************************************************)
(* Reconnection: the receive loop, maintain_connection and the peer, with  *)
(* the workflow doing nothing but starting receive_messages again.         *)
(***************************************************************************)

\* receive_messages has returned: its iteration finished or raised, or the
\* guard of line 176 refused.
ReceiverEnded == pc[Receiver] \in {"finished", "raised", "refused"}

\* example after lines 237-245: as StreamInit, with maintain_connection
\* scheduled as well.
ReconnectInit ==
    /\ is_connected = TRUE
    /\ connection = 1
    /\ tstate = <<"open">>
    /\ written = << <<HandshakeType>> >>
    /\ pc = [t \in Tasks |->
               CASE t = Receiver -> "receiving"
                 [] t = Maintainer -> "scheduled"
                 [] OTHER -> "idle"]
    /\ call = [t \in Tasks |->
                 CASE t = Receiver -> [NewCall("receive_messages") EXCEPT
                                         !.pre = TRUE, !.tr = 1]
                   [] t = Caller -> Returned(NewCall("connect"), TRUE)
                   [] OTHER -> NoCall]
    /\ calls = 1
    /\ fails = 0
    /\ message_handlers = ExampleHandlers
    /\ registered = << <<"command", 1>> >>
    /\ rx = NoItem
    /\ EnvelopeIdle
    /\ orch = NoOrch
    /\ inbox = <<>>
    /\ handled = <<>>
    /\ dash = NoDash

\* The peer sends a text on the transport the client holds as its handle.
ArriveOnHandle(raw) ==
    /\ connection # None
    /\ tstate[connection] = "open"
    /\ Len(inbox) < MaxItems
    /\ inbox' = Append(inbox, raw)
    /\ UNCHANGED <<cvars, dvars, evars, ovars, handled, wvars>>

\* The workflow calls receive_messages again after it has returned
\* (lines 170-181, as in RecvStart).
RecvAgain ==
    /\ UNCHANGED aux
    /\ ReceiverEnded
    /\ UNCHANGED <<is_connected, connection, calls, fails>>
    /\ LET rec == NewCall("receive_messages")
       IN  IF CannotReceive(is_connected, connection)
           THEN /\ pc' = [pc EXCEPT ![Receiver] = "refused"]
                /\ call' = [call EXCEPT ![Receiver] = Returned(rec, FALSE)]
           ELSE /\ pc' = [pc EXCEPT ![Receiver] = "receiving"]
                /\ call' = [call EXCEPT ![Receiver] = rec]
    /\ Settle(tstate, written)

\* The texts the peer sends here: one of each kind and type, the body of a
\* message having no part in whether it is read.
ReconnectItems == {raw \in Items : raw.data <= 1}

ReconnectNext ==
    \/ \E raw \in ReconnectItems : ArriveOnHandle(raw)
    \/ RecvNext
    \/ \E raised \in BOOLEAN : HandlerDone(raised)
    \/ RecvEnd
    \/ RecvAgain
    \/ MCIterate
    \/ ConnectOpened(Maintainer)
    \/ ConnectFailed(Maintainer)
    \/ SendDone(Maintainer)
    \/ \E h \in Transports : PeerClose(h)
    \/ \E h \in Transports : TransportError(h)

ReconnectSpec == ReconnectInit /\ [][ReconnectNext]_vars

\* A step in which maintain_connection does nothing.
MaintainerStill ==
    /\ pc'[Maintainer] = pc[Maintainer]
    /\ call'[Maintainer] = call[Maintainer]

\* C27: once receive_messages has returned because the stream ended, nothing
\* that arrives is read or dispatched, also after maintain_connection has
\* re-established a connection, until the workflow calls receive_messages
\* again: a text is taken only by a running receive loop, and no step of
\* maintain_connection or of its connect() starts the loop.
C27_NoReceiveAfterReconnect ==
    [][/\ (rx' # rx) => (pc[Receiver] \in {"receiving", "handling"} /\ TakesItem)
       /\ (ReceiverEnded /\ pc'[Receiver] = pc[Receiver]) => rx' = rx
       /\ (ReceiverEnded /\ pc'[Receiver] # pc[Receiver])
            => (MaintainerStill /\ connection' = connection
                /\ is_connected' = is_connected)
       /\ ~MaintainerStill
            => (pc'[Receiver] = pc[Receiver] /\ call'[Receiver] = call[Receiver]
                /\ rx' = rx)]_vars

C27_Witness ==
    /\ pc[Receiver] = "raised"
    /\ is_connected
    /\ connection = 2
    /\ tstate[2] = "open"
    /\ written[2] = <<HandshakeType>>
    /\ pc[Maintainer] = "sleeping"
    /\ call[Maintainer].op = "connect"
    /\ call[Maintainer].res
    /\ Len(inbox) > rx.n
    /\ inbox[Len(inbox)].type = "command"

\* C28: send_message returns true exactly when its transport write completed
\* without error, whatever the message mapping, one without a type key
\* included: it never returns false after the payload has been written.
C28_TrueIffWritten ==
    [][Returns(Caller, "send_message")
       => call'[Caller].res = (call[Caller].wo = 1)]_vars

(***************************************************************************)
(* Handlers that fail.  A handler ends by returning, by raising an         *)
(* exception derived from Exception, or by raising one that is not         *)
(* (SystemExit, KeyboardInterrupt, asyncio.CancelledError).                *)
(***************************************************************************)
HandlerOutcomes == {"returned", "exception", "base_exception"}

\* Lines 182-204: where receive_messages is after the handler it awaited has
\* ended.  except Exception (line 197) catches the first kind of exception
\* only; neither it nor the clauses of lines 199 and 202 catch the second,
\* which leaves receive_messages with the flag as it is.
AfterHandler(outcome) ==
    CASE outcome = "returned" -> "receiving"
      [] outcome = "exception" -> LoopAfterError("Exception")
      [] OTHER -> "aborted"

\* Lines 191-198: the awaited handler ends.
HandlerEnds(outcome) ==
    /\ pc[Receiver] = "handling"
    /\ ReceiverAt(AfterHandler(outcome))
    /\ handled' = Append(handled, outcome)
    /\ UNCHANGED <<is_connected, connection, calls, fails, dvars, evars, ovars, inbox, wvars>>
    /\ Settle(tstate, written)

HandlerNext ==
    \/ \E raw \in Items : Arrive(raw)
    \/ RecvNext
    \/ \E outcome \in HandlerOutcomes : HandlerEnds(outcome)
    \/ RecvEnd
    \/ \E h \in Transports : PeerClose(h)
    \/ \E h \in Transports : TransportError(h)

HandlerSpec == StreamInit /\ [][HandlerNext]_vars

\* The handler awaited by receive_messages ends in this step, in one of the
\* given ways.
HandlerEndsAs(outcomes) ==
    /\ Len(handled') = Len(handled) + 1
    /\ handled'[Len(handled')] \in outcomes

\* receive_messages goes on after the step and the connection state is as
\* before.
LoopGoesOn ==
    /\ pc'[Receiver] = "receiving"
    /\ ~call'[Receiver].done
    /\ is_connected' = is_connected
    /\ connection' = connection

\* The text taken in this step is dispatched to the handler of its type.
DispatchedByType ==
    (rx'.item.kind = "object" /\ HandlerFor(message_handlers, rx'.item.type) # NoHandler)
    => /\ pc'[Receiver] = "handling"
       /\ rx'.invoked = <<[h |-> HandlerFor(message_handlers, rx'.item.type),
                           msg |-> [type |-> rx'.item.type, data |-> rx'.item.data]]>>

\* C29: a handler that raises while processing an inbound message does not
\* end receive_messages and changes neither is_connected nor the handle:
\* whatever it raises is swallowed, and every later inbound message is still
\* dispatched.
C29_HandlerErrorSwallowed ==
    [][/\ HandlerEndsAs({"exception", "base_exception"}) => LoopGoesOn
       /\ (TakesItem /\ handled # <<>> /\ handled[Len(handled)] # "returned")
            => DispatchedByType]_vars

\* C29, amended: a handler that raises an exception derived from Exception
\* does not end receive_messages and changes neither is_connected nor the
\* handle, and every later inbound message is still dispatched; an exception
\* not derived from Exception leaves receive_messages, with the flag and the
\* handle unchanged, and nothing is dispatched after it.
C29_ExceptionSwallowed ==
    [][/\ HandlerEndsAs({"exception"}) => LoopGoesOn
       /\ (TakesItem /\ handled # <<>> /\ handled[Len(handled)] = "exception")
            => DispatchedByType
       /\ HandlerEndsAs({"base_exception"})
            => /\ pc'[Receiver] = "aborted"
               /\ call'[Receiver].done
               /\ is_connected' = is_connected
               /\ connection' = connection
       /\ pc[Receiver] = "aborted" => (pc'[Receiver] = "aborted" /\ rx' = rx)]_vars

C29_Witness ==
    /\ handled = <<"exception">>
    /\ rx.n = 2
    /\ pc[Receiver] = "handling"
    /\ Len(rx.invoked) = 1
    /\ is_connected

(***************************************************************************)
(* The dashboard server (dashboard_server.py): /run-agents and /stop on    *)
(* the threaded Flask server.  Each request runs in a thread of its own,   *)
(* and the threads share the globals current_process and is_running with   *)
(* no lock; a step is what a thread does between two points where another  *)
(* thread can run.                                                         *)
(***************************************************************************)
RunRequests == 1..MaxRuns
StopRequests == 1..MaxStops

\* Line 425: the guard of run_agents, on the flag it reads.
AlreadyRunning(running) == running

\* The dashboard after thread r of /run-agents has moved to pc.
RunAt(d, r, at) == [d EXCEPT !.run[r].pc = at]

\* Lines 497-499: the finally clause of generate().
Finally(d, r) ==
    [RunAt(d, r, "done") EXCEPT !.is_running = FALSE,
                                !.current_process = NoProcess]

\* Lines 421-501, up to the return: the request is rejected with the
\* already-running error (line 426), or the response is built around
\* generate(), which has not begun to run.
RunCheck(r) ==
    /\ dash.run[r].pc = "new"
    /\ dash' = RunAt(dash, r, IF AlreadyRunning(dash.is_running)
                               THEN "rejected" ELSE "accepted")
    /\ UNCHANGED <<cvars, dvars, evars, ovars, svars>>

\* Line 430: the server begins to iterate the response, and generate() sets
\* the flag.
RunMark(r) ==
    /\ dash.run[r].pc = "accepted"
    /\ dash' = [RunAt(dash, r, "marked") EXCEPT !.is_running = TRUE]
    /\ UNCHANGED <<cvars, dvars, evars, ovars, svars>>

\* Lines 432-450: os.chdir and subprocess.Popen.  When either raises, lines
\* 495-499 follow; otherwise the new process becomes current_process and
\* generate() yields its first line.
RunSpawn(r, ok) ==
    /\ dash.run[r].pc = "marked"
    /\ dash' = IF ok
               THEN [RunAt(dash, r, "spawned") EXCEPT
                       !.spawned = @ + 1,
                       !.current_process = dash.spawned + 1,
                       !.alive = @ \cup {dash.spawned + 1},
                       !.run[r].own = dash.spawned + 1]
               ELSE Finally(dash, r)
    /\ UNCHANGED <<cvars, dvars, evars, ovars, svars>>

\* Line 475: generate() goes on and starts reading current_process.stdout,
\* the global as it is now; when it is None the AttributeError leads to
\* lines 495-499.
RunListen(r) ==
    /\ dash.run[r].pc = "spawned"
    /\ dash' = IF dash.current_process = NoProcess
               THEN Finally(dash, r)
               ELSE [RunAt(dash, r, "streaming") EXCEPT
                       !.run[r].watched = dash.current_process]
    /\ UNCHANGED <<cvars, dvars, evars, ovars, svars>>

\* Lines 475-488: the output read has ended; generate() calls
\* current_process.wait() on the global as it is now, or fails on None.
RunStreamEnd(r) ==
    /\ dash.run[r].pc = "streaming"
    /\ dash.run[r].watched \notin dash.alive
    /\ dash' = IF dash.current_process = NoProcess
               THEN Finally(dash, r)
               ELSE [RunAt(dash, r, "waiting") EXCEPT
                       !.run[r].target = dash.current_process]
    /\ UNCHANGED <<cvars, dvars, evars, ovars, svars>>

\* Lines 488-499: the wait is over; the last line is yielded (or reading
\* returncode fails on None) and the finally clause runs.
RunWaitEnd(r) ==
    /\ dash.run[r].pc = "waiting"
    /\ dash.run[r].target \notin dash.alive
    /\ dash' = Finally(dash, r)
    /\ UNCHANGED <<cvars, dvars, evars, ovars, svars>>

\* A subprocess exits by itself.
ProcessExit(p) ==
    /\ p \in dash.alive
    /\ dash' = [dash EXCEPT !.alive = @ \ {p}]
    /\ UNCHANGED <<cvars, dvars, evars, ovars, svars>>

\* stop_agents, lines 1106-1108: the current process, if any, is terminated
\* (and taken to be gone at once) and the global set to None.
StopTerminate(k) ==
    /\ dash.stop[k] = "new"
    /\ dash' = [dash EXCEPT !.stop[k] = "clearing",
                            !.alive = @ \ {dash.current_process},
                            !.current_process = NoProcess]
    /\ UNCHANGED <<cvars, dvars, evars, ovars, svars>>

\* stop_agents, lines 1110-1111.
StopClear(k) ==
    /\ dash.stop[k] = "clearing"
    /\ dash' = [dash EXCEPT !.stop[k] = "done", !.is_running = FALSE]
    /\ UNCHANGED <<cvars, dvars, evars, ovars, svars>>

DashboardNext ==
    \/ \E r \in RunRequests : RunCheck(r)
    \/ \E r \in RunRequests : RunMark(r)
    \/ \E r \in RunRequests, ok \in BOOLEAN : RunSpawn(r, ok)
    \/ \E r \in RunRequests : RunListen(r)
    \/ \E r \in RunRequests : RunStreamEnd(r)
    \/ \E r \in RunRequests : RunWaitEnd(r)
    \/ \E p \in 1..MaxRuns : ProcessExit(p)
    \/ \E k \in StopRequests : StopTerminate(k)
    \/ \E k \in StopRequests : StopClear(k)

DashboardSpec == Init /\ [][DashboardNext]_vars

\* A run is in progress: its request was accepted and its generate() has not
\* ended.
InProgress(r) ==
    dash.run[r].pc \in {"accepted", "marked", "spawned", "streaming", "waiting"}

\* C30: at most one agent subprocess started by /run-agents exists at any
\* time: under any interleaving of /run-agents and /stop requests, a
\* /run-agents request that arrives while another run is in progress is
\* rejected with the already-running error and starts no second subprocess.
C30_SingleSubprocess ==
    /\ [](Cardinality(dash.alive) <= 1)
    /\ [][\A r \in RunRequests :
            (dash.run[r].pc = "new" /\ dash'.run[r].pc # "new"
               /\ \E q \in RunRequests \ {r} : InProgress(q))
            => dash'.run[r].pc = "rejected"]_vars

====
